---------------------------- MODULE Spec2Model ----------------------------
(***************************************************************************)
(* Room booking (src/app.py): the bookings table, the booking form, the    *)
(* Confirm Booking, delete and Restore Database handlers, and the two      *)
(* queries is_room_booked and is_room_available.                           *)
(*                                                                         *)
(* The bookings table has no key and no query orders its result, so a      *)
(* table is a bag (multiset) of rows.  start_time / end_time are TEXT: a   *)
(* timeslot label is the sequence of the code points of its "HH:MM" form   *)
(* and SQL compares labels bytewise.  Python None is bound as SQL NULL,    *)
(* and a comparison with NULL is neither true nor false (three-valued      *)
(* logic).                                                                 *)
(*                                                                         *)
(* Specifications: Spec (one session, every statement succeeds), SpecQuery *)
(* (direct calls of the queries), SpecSlots (the two time selectboxes over *)
(* the whole template), SpecFaults (an INSERT or the upload can raise, the *)
(* daily restore runs) and SpecRace (two sessions, the handler split       *)
(* between its check loop and its insert loop).                            *)
(***************************************************************************)
EXTENDS Integers, Sequences, FiniteSets, Bags, TLC

(***************************************************************************)
(* Bounds of the model (not program constants).                            *)
(***************************************************************************)
\* the form offers the first RoomsUsed rooms
RoomsUsed == 2
\* the form offers the first LowSlots timeslots and the last one of the day
LowSlots == 2
\* the date picker offers the days FirstDay + 7*k, 0 <= k <= MaxStartWeek
MaxStartWeek == 0
\* the recurrence slider goes up to MaxWeeks (10 in the program)
MaxWeeks == 2
\* the table holds at most MaxRows rows
MaxRows == 3
\* direct calls of the queries: tables of at most QueryRows rows over the first
\* QuerySlots timeslots and the last one
QueryRows == 2
QuerySlots == 4

(***************************************************************************)
(* Program constants.                                                      *)
(***************************************************************************)
rooms == <<"Styrelsen", "Visionären", "Innovatören", "Entreprenören", "Amatören", "Coffice">>

\* range(25) of the timeslot template
NumSlots == 25
\* the template starts at 07:00 and steps by 30 minutes
StartHour == 7
SlotMinutes == 30
DaysPerWeek == 7

\* Python None, bound as SQL NULL (no label has this form)
None == <<0>>

\* the text the handlers show
MsgNone == "-"
MsgMandatory == "Booking info is mandatory!"
MsgConflict == "Room is not available for all selected dates. No bookings made!"
MsgConfirmed == "Booking Confirmed!"
MsgRecurring == "Recurring bookings confirmed"
MsgDeleted == "Booking Deleted!"
MsgRestored == "Database downloaded successfully!"
\* f"Error: {e}" for an exception of an INSERT and of the upload
MsgInsertError == "Error: INSERT"
MsgUploadError == "Error: upload"
\* the exception Streamlit shows when a handler does not catch it
MsgUncaught == "Uncaught exception"

(***************************************************************************)
(* Time labels: strftime('%H:%M') of 07:00 + 30*i minutes.                 *)
(***************************************************************************)
Digit(n) == 48 + n
Colon == 58

strftime(minutes) ==
    LET h == (minutes \div 60) % 24
        m == minutes % 60
    IN  <<Digit(h \div 10), Digit(h % 10), Colon, Digit(m \div 10), Digit(m % 10)>>

RECURSIVE SlotsFrom(_)
\* [strftime(07:00 + 30*i minutes) for i in range(25)], from i on
SlotsFrom(i) ==
    IF i = NumSlots THEN <<>>
    ELSE <<strftime(StartHour * 60 + SlotMinutes * i)>> \o SlotsFrom(i + 1)

\* timeslots[i] is the program's timeslots[i-1]
timeslots == SlotsFrom(0)

\* timeslots.index(label) + 1
SlotIndex(label) == CHOOSE i \in 1..NumSlots : timeslots[i] = label

\* timeslots[timeslots.index(timeslot_selection):], the slice that keeps the label
end_timeslots_from(label) == SubSeq(timeslots, SlotIndex(label), NumSlots)

\* timeslots[timeslots.index(timeslot_selection)+1:]
end_timeslots(label) == SubSeq(timeslots, SlotIndex(label) + 1, NumSlots)

(***************************************************************************)
(* Dates: a date is its day number counted from 2024-01-01; str(date) is   *)
(* the ISO form, kept as <<year, month, day>>.                             *)
(***************************************************************************)
BaseYear == 2024
MonthDays == <<31, 29, 31, 30, 31, 30, 31, 31, 30, 31, 30, 31>>

RECURSIVE MonthOf(_, _)
MonthOf(day, m) ==
    IF m = 12 \/ day < MonthDays[m] THEN <<m, day + 1>>
    ELSE MonthOf(day - MonthDays[m], m + 1)

DateStr(day) == <<BaseYear>> \o MonthOf(day, 1)

\* the first date the picker offers: 2024-01-22
FirstDay == 21

(***************************************************************************)
(* SQL comparison of TEXT values, three-valued.                            *)
(***************************************************************************)
SqlTrue == "TRUE"
SqlFalse == "FALSE"
SqlNull == "NULL"

RECURSIVE TextLess(_, _)
\* bytewise order of two texts (BINARY collation)
TextLess(a, b) ==
    IF b = <<>> THEN FALSE
    ELSE IF a = <<>> THEN TRUE
    ELSE IF Head(a) # Head(b) THEN Head(a) < Head(b)
    ELSE TextLess(Tail(a), Tail(b))

Sql3(b) == IF b THEN SqlTrue ELSE SqlFalse

SqlLt(a, b) == IF a = None \/ b = None THEN SqlNull ELSE Sql3(TextLess(a, b))
SqlGt(a, b) == SqlLt(b, a)
SqlLe(a, b) == IF a = None \/ b = None THEN SqlNull ELSE Sql3(~TextLess(b, a))
SqlGe(a, b) == SqlLe(b, a)
SqlEq(a, b) == IF a = None \/ b = None THEN SqlNull ELSE Sql3(a = b)

SqlAnd(p, q) ==
    IF p = SqlFalse \/ q = SqlFalse THEN SqlFalse
    ELSE IF p = SqlNull \/ q = SqlNull THEN SqlNull
    ELSE SqlTrue

SqlOr(p, q) ==
    IF p = SqlTrue \/ q = SqlTrue THEN SqlTrue
    ELSE IF p = SqlNull \/ q = SqlNull THEN SqlNull
    ELSE SqlFalse

(***************************************************************************)
(* The queries.  A table is a bag of rows                                  *)
(* [room_name, date, start_time, end_time, booking_info].                  *)
(***************************************************************************)
\* the result of a statement: the selected rows of the table with their copies
Selected(table, rows) == [b \in rows |-> CopiesIn(b, table)]

\* cur.fetchone(): the rows it may return (the SELECT has no ORDER BY); the
\* empty set is Python's None
fetchone(result) == BagToSet(result)

\* BookedWhere with the end of the interval included
BookedWhereClosed(b, room, date, timeslot) ==
    /\ b.room_name = room
    /\ b.date = date
    /\ SqlAnd(SqlLe(b.start_time, timeslot), SqlGe(b.end_time, timeslot)) = SqlTrue

\* BookedWhere matching only the slot at which the row starts
BookedWhereStart(b, room, date, timeslot) ==
    /\ b.room_name = room
    /\ b.date = date
    /\ SqlEq(b.start_time, timeslot) = SqlTrue

BookedWhere(b, room, date, timeslot) ==
    /\ b.room_name = room
    /\ b.date = date
    /\ SqlAnd(SqlLe(b.start_time, timeslot), SqlGt(b.end_time, timeslot)) = SqlTrue

is_room_booked(table, room, date, timeslot) ==
    fetchone(Selected(table,
        {b \in BagToSet(table) : BookedWhere(b, room, date, timeslot)}))

\* AvailableWhere without its third alternative (the row covers the new start)
AvailableWhereNoCover(b, room, date, start_time, end_time) ==
    /\ b.room_name = room
    /\ b.date = date
    /\ SqlOr(SqlOr(
           SqlAnd(SqlGt(b.start_time, start_time), SqlLt(b.start_time, end_time)),
           SqlAnd(SqlGt(b.end_time, start_time), SqlLt(b.end_time, end_time))),
           SqlAnd(SqlGe(b.start_time, end_time), SqlLe(b.end_time, start_time)))
       = SqlTrue

\* AvailableWhere as a test of the new endpoints against the row only
AvailableWhereBetween(b, room, date, start_time, end_time) ==
    /\ b.room_name = room
    /\ b.date = date
    /\ SqlOr(
           SqlAnd(SqlLe(b.start_time, start_time), SqlGt(b.end_time, start_time)),
           SqlAnd(SqlLt(b.start_time, end_time), SqlGe(b.end_time, end_time)))
       = SqlTrue

AvailableWhere(b, room, date, start_time, end_time) ==
    /\ b.room_name = room
    /\ b.date = date
    /\ SqlOr(SqlOr(SqlOr(
           SqlAnd(SqlGt(b.start_time, start_time), SqlLt(b.start_time, end_time)),
           SqlAnd(SqlGt(b.end_time, start_time), SqlLt(b.end_time, end_time))),
           SqlAnd(SqlLe(b.start_time, start_time), SqlGt(b.end_time, start_time))),
           SqlAnd(SqlGe(b.start_time, end_time), SqlLe(b.end_time, start_time)))
       = SqlTrue

\* booking is None
is_room_available(table, room, date, start_time, end_time) ==
    fetchone(Selected(table,
        {b \in BagToSet(table) : AvailableWhere(b, room, date, start_time, end_time)})) = {}

\* DeleteWhere without the test of start_time
DeleteWhereRoomDate(b, room, date, start_time) ==
    /\ b.room_name = room
    /\ b.date = date

DeleteWhere(b, room, date, start_time) ==
    /\ b.room_name = room
    /\ b.date = date
    /\ SqlEq(b.start_time, start_time) = SqlTrue

\* delete_booking removing one copy of each row that matches (DELETE ... LIMIT 1
\* per row)
delete_booking_one(table, room, date, start_time) ==
    LET Left(b) == IF DeleteWhere(b, room, date, start_time)
                   THEN CopiesIn(b, table) - 1 ELSE CopiesIn(b, table)
    IN  [b \in {r \in BagToSet(table) : Left(r) > 0} |-> Left(b)]

\* DELETE FROM bookings WHERE ...: the table without the rows that match
delete_booking(table, room, date, start_time) ==
    Selected(table, {b \in BagToSet(table) : ~DeleteWhere(b, room, date, start_time)})

get_all_bookings(table, date) ==
    Selected(table, {b \in BagToSet(table) : b.date = date})

(***************************************************************************)
(* State.                                                                  *)
(***************************************************************************)
VARIABLES
    store,               \* the rows of bookings.db
    remote,              \* the rows of the snapshot blob bookings_prd.db
    selected_date,       \* st.session_state.selected_date (a day number)
    room_selection,      \* the form's widgets
    timeslot_selection,
    end_time_selection,
    booking_info,
    recurring_booking,
    recurring_weeks,
    msg,                 \* what the handler of this run showed
    answer,              \* the last direct call of a query and what it returned
    pc,                  \* where this session's Confirm Booking handler stands
    peer                 \* a second session: where its handler stands, and its proposal

form == <<room_selection, timeslot_selection, end_time_selection, booking_info,
          recurring_booking, recurring_weeks>>
sessions == <<pc, peer>>
vars == <<store, remote, selected_date, form, msg, answer, sessions>>

\* what the widgets offer within the bounds
RoomChoices == {rooms[i] : i \in 1..RoomsUsed}
SlotChoices == {timeslots[i] : i \in (1..LowSlots) \cup {NumSlots}}
DateChoices == {FirstDay + DaysPerWeek * k : k \in 0..MaxStartWeek}
InfoChoices == {"", "Standup"}

\* st.selectbox("End Time", end_timeslots): None when there is nothing to offer
EndChoicesOf(start) ==
    IF end_timeslots(start) = <<>> THEN {None}
    ELSE {end_timeslots(start)[i] : i \in 1..Len(end_timeslots(start))}

EndChoices(start) == EndChoicesOf(start) \cap (SlotChoices \cup {None})

\* the pairs of start and end the two selectboxes can hold
TimeChoices ==
    {se \in SlotChoices \X (SlotChoices \cup {None}) : se[2] \in EndChoices(se[1])}

NoAnswer == [call |-> "none"]

\* a session whose script is not in the Confirm Booking handler
PeerIdle == [pc |-> "idle"]

Init ==
    /\ store = EmptyBag
    /\ remote = EmptyBag
    /\ selected_date = FirstDay
    /\ room_selection = rooms[1]
    /\ timeslot_selection = timeslots[1]
    /\ end_time_selection = end_timeslots(timeslots[1])[1]
    /\ booking_info = ""
    /\ recurring_booking = FALSE
    /\ recurring_weeks = 1
    /\ msg = MsgNone
    /\ answer = NoAnswer
    /\ pc = "idle"
    /\ peer = PeerIdle

(***************************************************************************)
(* The widgets of the form and the date picker: each change reruns the     *)
(* script, which shows no message.  A widget answers when the session's    *)
(* script is not in a handler.                                             *)
(***************************************************************************)
SelectRoom(r) ==
    /\ pc = "idle"
    /\ room_selection' = r
    /\ msg' = MsgNone
    /\ UNCHANGED <<store, remote, answer, sessions, selected_date, timeslot_selection,
                   end_time_selection, booking_info, recurring_booking, recurring_weeks>>

\* the start slot and, among the slots after it, the end slot
SelectTimes(s, e) ==
    /\ pc = "idle"
    /\ timeslot_selection' = s
    /\ end_time_selection' = e
    /\ msg' = MsgNone
    /\ UNCHANGED <<store, remote, answer, sessions, selected_date, room_selection, booking_info,
                   recurring_booking, recurring_weeks>>

EnterInfo(text) ==
    /\ pc = "idle"
    /\ booking_info' = text
    /\ msg' = MsgNone
    /\ UNCHANGED <<store, remote, answer, sessions, selected_date, room_selection, timeslot_selection,
                   end_time_selection, recurring_booking, recurring_weeks>>

\* the checkbox and, when it is set, the slider (1 when it is not)
SetRecurring(on, weeks) ==
    /\ pc = "idle"
    /\ recurring_booking' = on
    /\ recurring_weeks' = IF on THEN weeks ELSE 1
    /\ msg' = MsgNone
    /\ UNCHANGED <<store, remote, answer, sessions, selected_date, room_selection, timeslot_selection,
                   end_time_selection, booking_info>>

SelectDate(d) ==
    /\ pc = "idle"
    /\ selected_date' = d
    /\ msg' = MsgNone
    /\ UNCHANGED <<store, remote, answer, sessions, form>>

(***************************************************************************)
(* Confirm Booking.                                                        *)
(***************************************************************************)
\* range(recurring_weeks if recurring_booking else 1)
LoopCount(recurring, weeks) == IF recurring THEN weeks ELSE 1

RECURSIVE CheckLoop(_, _, _, _, _, _)
\* the availability loop: all_dates_available after n more rounds from current_date
CheckLoop(table, room, current_date, start_time, end_time, n) ==
    IF n = 0 THEN TRUE
    ELSE IF ~is_room_available(table, room, DateStr(current_date), start_time, end_time)
         THEN FALSE
    ELSE CheckLoop(table, room, current_date + DaysPerWeek, start_time, end_time, n - 1)

RECURSIVE LoopExitDate(_, _, _, _, _, _)
\* the availability loop: current_date when the loop is left after at most n
\* more rounds, the date of the break if it breaks
LoopExitDate(table, room, current_date, start_time, end_time, n) ==
    IF n = 0 THEN current_date
    ELSE IF ~is_room_available(table, room, DateStr(current_date), start_time, end_time)
         THEN current_date
    ELSE LoopExitDate(table, room, current_date + DaysPerWeek, start_time, end_time, n - 1)

\* the warning shown when the loop broke at current_date: a text without a field
ConflictWarning(current_date) == MsgConflict

\* insert with start_time and end_time bound in the wrong order
insertSwapped(table, room, date, start_time, end_time, info) ==
    table (+) SetToBag({[room_name |-> room, date |-> date, start_time |-> end_time,
                         end_time |-> start_time, booking_info |-> info]})

\* INSERT INTO bookings VALUES (?, ?, ?, ?, ?)
insert(table, room, date, start_time, end_time, info) ==
    table (+) SetToBag({[room_name |-> room, date |-> date, start_time |-> start_time,
                         end_time |-> end_time, booking_info |-> info]})

RECURSIVE InsertLoopDaily(_, _, _, _, _, _, _)
\* InsertLoop moving on by one day instead of one week
InsertLoopDaily(table, room, current_date, start_time, end_time, info, n) ==
    IF n = 0 THEN table
    ELSE InsertLoopDaily(insert(table, room, DateStr(current_date), start_time, end_time, info),
                         room, current_date + 1, start_time, end_time, info, n - 1)

RECURSIVE InsertLoop(_, _, _, _, _, _, _)
\* the insert loop: the table after n more rounds from current_date
InsertLoop(table, room, current_date, start_time, end_time, info, n) ==
    IF n = 0 THEN table
    ELSE InsertLoop(insert(table, room, DateStr(current_date), start_time, end_time, info),
                    room, current_date + DaysPerWeek, start_time, end_time, info, n - 1)

\* ConfirmBooking without the rerun after the warning: it goes on to insert
ConfirmBookingFallThrough ==
    LET n == LoopCount(recurring_booking, recurring_weeks) IN
    /\ UNCHANGED <<selected_date, form, answer, sessions>>
    /\ IF booking_info = ""
       THEN /\ msg' = MsgMandatory
            /\ UNCHANGED <<store, remote>>
       ELSE IF ~CheckLoop(store, room_selection, selected_date, timeslot_selection,
                          end_time_selection, n)
       THEN /\ BagCardinality(store) + n <= MaxRows
            /\ store' = InsertLoop(store, room_selection, selected_date, timeslot_selection,
                                   end_time_selection, booking_info, n)
            /\ msg' = MsgConflict
            /\ remote' = store'
       ELSE /\ BagCardinality(store) + n <= MaxRows
            /\ store' = InsertLoop(store, room_selection, selected_date, timeslot_selection,
                                   end_time_selection, booking_info, n)
            /\ msg' = IF recurring_booking THEN MsgRecurring ELSE MsgConfirmed
            \* upload_db_to_gcs
            /\ remote' = store'

\* ConfirmBooking without the check of booking_info
ConfirmBookingNoInfoCheck ==
    LET n == LoopCount(recurring_booking, recurring_weeks) IN
    /\ UNCHANGED <<selected_date, form, answer, sessions>>
    /\ IF ~CheckLoop(store, room_selection, selected_date, timeslot_selection,
                          end_time_selection, n)
       THEN \* the warning, then st.experimental_rerun() ends the run
            /\ msg' = MsgConflict
            /\ UNCHANGED <<store, remote>>
       ELSE /\ BagCardinality(store) + n <= MaxRows
            /\ store' = InsertLoop(store, room_selection, selected_date, timeslot_selection,
                                   end_time_selection, booking_info, n)
            /\ msg' = IF recurring_booking THEN MsgRecurring ELSE MsgConfirmed
            \* upload_db_to_gcs
            /\ remote' = store'

ConfirmBooking ==
    LET n == LoopCount(recurring_booking, recurring_weeks) IN
    /\ UNCHANGED <<selected_date, form, answer, sessions>>
    /\ IF booking_info = ""
       THEN /\ msg' = MsgMandatory
            /\ UNCHANGED <<store, remote>>
       ELSE IF ~CheckLoop(store, room_selection, selected_date, timeslot_selection,
                          end_time_selection, n)
       THEN \* the warning, then st.experimental_rerun() ends the run
            /\ msg' = ConflictWarning(LoopExitDate(store, room_selection, selected_date,
                                                   timeslot_selection, end_time_selection, n))
            /\ UNCHANGED <<store, remote>>
       ELSE /\ BagCardinality(store) + n <= MaxRows
            /\ store' = InsertLoop(store, room_selection, selected_date, timeslot_selection,
                                   end_time_selection, booking_info, n)
            /\ msg' = IF recurring_booking THEN MsgRecurring ELSE MsgConfirmed
            \* upload_db_to_gcs
            /\ remote' = store'

(***************************************************************************)
(* The delete button of a row of the day's table, and Restore Database.    *)
(***************************************************************************)
DeleteButton ==
    \E booking \in BagToSet(get_all_bookings(store, DateStr(selected_date))) :
        /\ store' = delete_booking(store, booking.room_name, booking.date, booking.start_time)
        /\ msg' = MsgDeleted
        \* upload_db_to_gcs
        /\ remote' = store'
        /\ UNCHANGED <<selected_date, form, answer, sessions>>

RestoreButton ==
    \* download_db_from_gcs
    /\ store' = remote
    /\ msg' = MsgRestored
    /\ UNCHANGED <<remote, selected_date, form, answer, sessions>>

(***************************************************************************)
(* One session, one handler at a time, within one calendar day (the        *)
(* restore at the start of the script has run); every INSERT, DELETE,      *)
(* upload and download succeeds.                                           *)
(***************************************************************************)
Next ==
    \/ \E r \in RoomChoices : SelectRoom(r)
    \/ \E se \in TimeChoices : SelectTimes(se[1], se[2])
    \/ \E text \in InfoChoices : EnterInfo(text)
    \/ \E on \in BOOLEAN, weeks \in 1..MaxWeeks : SetRecurring(on, weeks)
    \/ \E d \in DateChoices : SelectDate(d)
    \/ ConfirmBooking
    \/ DeleteButton
    \/ RestoreButton

Spec == Init /\ [][Next]_vars

(***************************************************************************)
(* Direct calls of the queries on the tables the program can hold: rows    *)
(* whose start precedes their end, or that start at the last slot and have *)
(* no end.                                                                 *)
(***************************************************************************)
QuerySlotChoices == {timeslots[i] : i \in (1..QuerySlots) \cup {NumSlots}}
QueryDates == {DateStr(FirstDay + DaysPerWeek * k) : k \in 0..1}

QueryIntervals ==
    {<<timeslots[i], timeslots[j]>> :
        i \in (1..QuerySlots) \cup {NumSlots}, j \in (1..QuerySlots) \cup {NumSlots}}

StorableRows ==
    {[room_name |-> r, date |-> d, start_time |-> se[1], end_time |-> se[2],
      booking_info |-> "Standup"] :
        r \in RoomChoices, d \in QueryDates,
        se \in {x \in QueryIntervals : x[2] \in EndChoicesOf(x[1])}
               \cup {<<timeslots[NumSlots], None>>}}

RECURSIVE TablesOf(_)
\* the bags of at most n storable rows
TablesOf(n) ==
    IF n = 0 THEN {EmptyBag}
    ELSE LET smaller == TablesOf(n - 1)
         IN  smaller \cup {t (+) SetToBag({b}) : t \in smaller, b \in StorableRows}

InitQuery ==
    /\ store \in TablesOf(QueryRows)
    /\ remote = store
    /\ selected_date = FirstDay
    /\ room_selection = rooms[1]
    /\ timeslot_selection = timeslots[1]
    /\ end_time_selection = end_timeslots(timeslots[1])[1]
    /\ booking_info = ""
    /\ recurring_booking = FALSE
    /\ recurring_weeks = 1
    /\ msg = MsgNone
    /\ answer = NoAnswer
    /\ pc = "idle"
    /\ peer = PeerIdle

\* one call on each table
CallIsRoomAvailable(room, date, start_time, end_time) ==
    /\ answer = NoAnswer
    /\ end_time \in EndChoicesOf(start_time)
    /\ answer' = [call |-> "is_room_available", room |-> room, date |-> date,
                  start_time |-> start_time, end_time |-> end_time,
                  result |-> is_room_available(store, room, date, start_time, end_time)]
    /\ UNCHANGED <<store, remote, selected_date, form, msg, sessions>>

NextQuery ==
    \E r \in RoomChoices, d \in QueryDates, s \in QuerySlotChoices, e \in QuerySlotChoices :
        CallIsRoomAvailable(r, d, s, e)

SpecQuery == InitQuery /\ [][NextQuery]_vars

(***************************************************************************)
(* The two time selectboxes over the whole template: every start slot and, *)
(* for it, every end the End Time box offers.                              *)
(***************************************************************************)
AllSlots == {timeslots[i] : i \in 1..NumSlots}

NextSlots ==
    \E s \in AllSlots : \E e \in EndChoicesOf(s) : SelectTimes(s, e)

SpecSlots == Init /\ [][NextSlots]_vars

(***************************************************************************)
(* Failing statements.  An INSERT or the upload can raise.  Each INSERT    *)
(* runs and commits in a connection of its own, so the rows inserted       *)
(* before a failing INSERT stay.  The Confirm Booking handler catches the  *)
(* exception and shows it; the delete handler does not catch the           *)
(* exception of its upload.  The first run of the script on a new day      *)
(* downloads the snapshot over bookings.db.                                *)
(***************************************************************************)
\* Confirm Booking whose INSERT number k + 1 raises: k rows are in the table,
\* the except clause shows the error, the upload is not reached
ConfirmBookingInsertFails(k) ==
    LET n == LoopCount(recurring_booking, recurring_weeks) IN
    /\ pc = "idle"
    /\ booking_info # ""
    /\ CheckLoop(store, room_selection, selected_date, timeslot_selection,
                 end_time_selection, n)
    /\ k < n
    /\ BagCardinality(store) + k <= MaxRows
    /\ store' = InsertLoop(store, room_selection, selected_date, timeslot_selection,
                           end_time_selection, booking_info, k)
    /\ msg' = MsgInsertError
    /\ UNCHANGED <<remote, selected_date, form, answer, sessions>>

\* Confirm Booking whose upload raises: the rows are in the table, the success
\* text is shown, then the except clause shows the error under it
ConfirmBookingUploadFails ==
    LET n == LoopCount(recurring_booking, recurring_weeks) IN
    /\ pc = "idle"
    /\ booking_info # ""
    /\ CheckLoop(store, room_selection, selected_date, timeslot_selection,
                 end_time_selection, n)
    /\ BagCardinality(store) + n <= MaxRows
    /\ store' = InsertLoop(store, room_selection, selected_date, timeslot_selection,
                           end_time_selection, booking_info, n)
    /\ msg' = MsgUploadError
    /\ UNCHANGED <<remote, selected_date, form, answer, sessions>>

\* the delete button whose upload raises: the rows are deleted, the exception
\* ends the run
DeleteButtonUploadFails ==
    \E booking \in BagToSet(get_all_bookings(store, DateStr(selected_date))) :
        /\ pc = "idle"
        /\ store' = delete_booking(store, booking.room_name, booking.date, booking.start_time)
        /\ msg' = MsgUncaught
        /\ UNCHANGED <<remote, selected_date, form, answer, sessions>>

\* the first run of the script on a new day (last_restored_date != today):
\* download_db_from_gcs, then the page without a message
restore_db_if_needed ==
    /\ pc = "idle"
    /\ store' = remote
    /\ msg' = MsgNone
    /\ UNCHANGED <<remote, selected_date, form, answer, sessions>>

\* the pairs of start and end with an end
FaultTimeChoices == {se \in TimeChoices : se[2] # None}

\* one session, one room and one date, proposals with an end
NextFaults ==
    \/ \E se \in FaultTimeChoices : SelectTimes(se[1], se[2])
    \/ \E text \in InfoChoices : EnterInfo(text)
    \/ \E on \in BOOLEAN, weeks \in 1..MaxWeeks : SetRecurring(on, weeks)
    \/ ConfirmBooking
    \/ \E k \in 0..(MaxWeeks - 1) : ConfirmBookingInsertFails(k)
    \/ ConfirmBookingUploadFails
    \/ DeleteButton
    \/ DeleteButtonUploadFails
    \/ RestoreButton
    \/ restore_db_if_needed

SpecFaults == Init /\ [][NextFaults]_vars

(***************************************************************************)
(* Two sessions on the one bookings.db.  A Confirm Booking handler reads   *)
(* the table in its check loop and writes it in its insert loop, each      *)
(* statement in a connection of its own; nothing holds the table between   *)
(* the two loops, so the statements of the other session can run there.    *)
(* The handler is two steps: the checks, then the inserts and the upload.  *)
(***************************************************************************)
\* ConfirmCheck without the availability loop
ConfirmCheckNoLoop ==
    /\ pc = "idle"
    /\ UNCHANGED <<store, remote, selected_date, form, answer, peer>>
    /\ IF booking_info = ""
       THEN /\ msg' = MsgMandatory
            /\ pc' = "idle"
       ELSE /\ msg' = MsgNone
            /\ pc' = "insert"

\* this session's handler up to the end of the check loop
ConfirmCheck ==
    LET n == LoopCount(recurring_booking, recurring_weeks) IN
    /\ pc = "idle"
    /\ UNCHANGED <<store, remote, selected_date, form, answer, peer>>
    /\ IF booking_info = ""
       THEN /\ msg' = MsgMandatory
            /\ pc' = "idle"
       ELSE IF ~CheckLoop(store, room_selection, selected_date, timeslot_selection,
                          end_time_selection, n)
       THEN \* the warning, then st.experimental_rerun() ends the run
            /\ msg' = ConflictWarning(LoopExitDate(store, room_selection, selected_date,
                                                   timeslot_selection, end_time_selection, n))
            /\ pc' = "idle"
       ELSE /\ msg' = MsgNone
            /\ pc' = "insert"

\* this session's handler from the insert loop on
ConfirmInsert ==
    LET n == LoopCount(recurring_booking, recurring_weeks) IN
    /\ pc = "insert"
    /\ BagCardinality(store) + n <= MaxRows
    /\ store' = InsertLoop(store, room_selection, selected_date, timeslot_selection,
                           end_time_selection, booking_info, n)
    /\ msg' = IF recurring_booking THEN MsgRecurring ELSE MsgConfirmed
    \* upload_db_to_gcs
    /\ remote' = store'
    /\ pc' = "idle"
    /\ UNCHANGED <<selected_date, form, answer, peer>>

\* the other session's handler up to the end of the check loop, for the
\* proposal its form holds; a run that ends in a warning changes nothing here
PeerCheck(room, date, start_time, end_time, info, n) ==
    /\ peer.pc = "idle"
    /\ info # ""
    /\ CheckLoop(store, room, date, start_time, end_time, n)
    /\ peer' = [pc |-> "insert", room_name |-> room, date |-> date,
                start_time |-> start_time, end_time |-> end_time,
                booking_info |-> info, n |-> n]
    /\ UNCHANGED <<store, remote, selected_date, form, msg, answer, pc>>

\* the other session's handler from the insert loop on
PeerInsert ==
    /\ peer.pc = "insert"
    /\ BagCardinality(store) + peer.n <= MaxRows
    /\ store' = InsertLoop(store, peer.room_name, peer.date, peer.start_time,
                           peer.end_time, peer.booking_info, peer.n)
    \* upload_db_to_gcs
    /\ remote' = store'
    /\ peer' = PeerIdle
    /\ UNCHANGED <<selected_date, form, msg, answer, pc>>

\* both sessions propose for the room and date this session shows
NextRace ==
    \/ \E se \in TimeChoices : SelectTimes(se[1], se[2])
    \/ \E text \in InfoChoices : EnterInfo(text)
    \/ \E on \in BOOLEAN, weeks \in 1..MaxWeeks : SetRecurring(on, weeks)
    \/ ConfirmCheck
    \/ ConfirmInsert
    \/ \E se \in TimeChoices, n \in 1..MaxWeeks :
           PeerCheck(room_selection, selected_date, se[1], se[2], "Standup", n)
    \/ PeerInsert

SpecRace == Init /\ [][NextRace]_vars

(***************************************************************************)
(* Properties.                                                             *)
(*                                                                         *)
(* Slot order in the properties is the chronological one (the position in  *)
(* the timeslot template); a row without an end_time has no interval.      *)
(***************************************************************************)
Before(a, b) == a # None /\ b # None /\ SlotIndex(a) < SlotIndex(b)

SameRoomAndDate(A, B) == A.room_name = B.room_name /\ A.date = B.date

\* A.start < B.end and B.start < A.end
Overlap(A, B) ==
    /\ SameRoomAndDate(A, B)
    /\ Before(A.start_time, B.end_time)
    /\ Before(B.start_time, A.end_time)

Rows(table) == BagToSet(table)

\* two distinct stored bookings: two rows, or two copies of one row
Distinct(table, A, B) == A # B \/ CopiesIn(A, table) > 1

\* C1: no two distinct stored bookings of one room and date overlap
\* (A.start < B.end and B.start < A.end), whatever proposals and removals ran.
C1_NoOverlap ==
    \A A \in Rows(store), B \in Rows(store) :
        Distinct(store, A, B) => ~Overlap(A, B)

\* two bookings of one room and date, each with an interval, are stored
C1_Witness ==
    \E A \in Rows(store), B \in Rows(store) :
        /\ A # B
        /\ SameRoomAndDate(A, B)
        /\ A.end_time # None
        /\ B.end_time # None

\* C2: is_room_available(room, date, S, E) with S before E returns false
\* exactly when some stored booking [s, e) of that room and date has s < E and
\* S < e.
C2_AvailableIffNoOverlap ==
    answer.call = "is_room_available" =>
        (answer.result = FALSE <=>
            \E b \in Rows(store) :
                /\ b.room_name = answer.room
                /\ b.date = answer.date
                /\ Before(b.start_time, answer.end_time)
                /\ Before(answer.start_time, b.end_time))

\* the call was refused for a proposal that strictly contains a stored booking,
\* the only booking of that room and date
C2_Witness ==
    /\ answer.call = "is_room_available"
    /\ answer.result = FALSE
    /\ \E b \in Rows(store) :
        /\ b.room_name = answer.room
        /\ b.date = answer.date
        /\ Before(answer.start_time, b.start_time)
        /\ Before(b.end_time, answer.end_time)
        /\ \A c \in Rows(store) : SameRoomAndDate(b, c) => c = b

\* the booking the form proposes for a day
Proposed(day) ==
    [room_name |-> room_selection, date |-> DateStr(day),
     start_time |-> timeslot_selection, end_time |-> end_time_selection,
     booking_info |-> booking_info]

\* some stored booking overlaps the booking
Conflicts(table, booking) == \E b \in Rows(table) : Overlap(b, booking)

\* the days of the proposal in the form: baseDate + 7*i, 0 <= i < weeks
ProposalDays ==
    {selected_date + DaysPerWeek * i :
        i \in 0..((IF recurring_booking THEN recurring_weeks ELSE 1) - 1)}

\* the step is a run of the Confirm Booking handler
ConfirmStep == msg' \in {MsgMandatory, MsgConflict, MsgConfirmed, MsgRecurring}

\* C3: a recurring proposal that finds the room unavailable on any of its
\* weekly dates inserts nothing: the store is what it was, also for the dates
\* before the conflicting one.
C3_RecurringAllOrNothing ==
    [][(/\ ConfirmStep
        /\ recurring_booking
        /\ \E d \in ProposalDays : Conflicts(store, Proposed(d)))
       => /\ store' = store
          /\ booking_info # "" => msg' = MsgConflict]_vars

\* a recurring proposal was refused whose first date is free and whose second
\* date is taken
C3_Witness ==
    /\ msg = MsgConflict
    /\ recurring_booking
    /\ recurring_weeks >= 2
    /\ ~Conflicts(store, Proposed(selected_date))
    /\ Conflicts(store, Proposed(selected_date + DaysPerWeek))

\* C4: a single proposal that overlaps a stored booking of its room and date
\* is refused with the conflict warning and leaves the store unchanged; one
\* that passes the checks adds exactly one booking with the proposed room,
\* date, start, end and info.
C4_SingleProposal ==
    [][(ConfirmStep /\ ~recurring_booking) =>
          IF Conflicts(store, Proposed(selected_date))
          THEN /\ store' = store
               /\ booking_info # "" => msg' = MsgConflict
          ELSE booking_info # "" =>
               /\ store' = store (+) SetToBag({Proposed(selected_date)})
               /\ msg' = MsgConfirmed]_vars

\* a single proposal was refused for a conflict
C4_Witness ==
    /\ msg = MsgConflict
    /\ ~recurring_booking
    /\ Conflicts(store, Proposed(selected_date))

\* C5: a successful recurring proposal adds exactly one booking on each date
\* baseDate + 7*i, 0 <= i < weeks, with the proposed room, start, end and
\* info, and nothing else; each of these dates was free.
C5_RecurringInserts ==
    [][(ConfirmStep /\ recurring_booking /\ msg' = MsgRecurring) =>
          /\ store' = store (+) SetToBag({Proposed(d) : d \in ProposalDays})
          /\ \A d \in ProposalDays : ~Conflicts(store, Proposed(d))]_vars

\* a recurring proposal for two weeks or more was accepted into a store that
\* held another booking
C5_Witness ==
    /\ msg = MsgRecurring
    /\ recurring_weeks >= 2
    /\ BagCardinality(store) > recurring_weeks

\* C6: every stored booking has startTime strictly before endTime, whatever
\* start slot the form had, the last slot of the day included.
C6_StartBeforeEnd ==
    \A b \in Rows(store) : Before(b.start_time, b.end_time)

\* C7: no two stored bookings share (room, date, startTime).
C7_KeyUnique ==
    \A A \in Rows(store), B \in Rows(store) :
        Distinct(store, A, B) =>
            ~(SameRoomAndDate(A, B) /\ A.start_time = B.start_time)

\* t is a slot of [start, end)
Within(t, b) == ~Before(t, b.start_time) /\ Before(t, b.end_time)

\* the slots of [start, end): none for a booking without an end
SlotsOf(b) ==
    IF b.end_time = None THEN {}
    ELSE {timeslots[i] : i \in SlotIndex(b.start_time)..(SlotIndex(b.end_time) - 1)}

\* C8 as claimed: for a stored booking [start, end), is_room_booked returns
\* the booking at every slot of [start, end) and none at end.
C8_RoundTripNoneAtEnd ==
    \A b \in Rows(store) :
        /\ \A t \in SlotsOf(b) :
              is_room_booked(store, b.room_name, b.date, t) = {b}
        /\ b.end_time # None =>
              is_room_booked(store, b.room_name, b.date, b.end_time) = {}

\* C8 amended: for a stored booking [start, end), is_room_booked returns the
\* booking at every slot of [start, end); at end it does not return the
\* booking: it returns none, or the other stored booking that covers end.
C8_RoundTrip ==
    \A b \in Rows(store) :
        /\ \A t \in SlotsOf(b) :
              is_room_booked(store, b.room_name, b.date, t) = {b}
        /\ b.end_time # None =>
              is_room_booked(store, b.room_name, b.date, b.end_time)
                 = {c \in Rows(store) \ {b} :
                       SameRoomAndDate(b, c) /\ Within(b.end_time, c)}

\* a booking is stored next to one that starts where it ends
C8_Witness ==
    \E b \in Rows(store), c \in Rows(store) :
        /\ SameRoomAndDate(b, c)
        /\ b.end_time # None
        /\ b.end_time = c.start_time
        /\ c.end_time # None

\* the keys a caller can pass to delete_booking
DeleteKeys ==
    {<<r, DateStr(FirstDay + DaysPerWeek * k), s>> :
        r \in RoomChoices, k \in 0..(MaxStartWeek + MaxWeeks), s \in SlotChoices}

Matches(table, key) ==
    \E b \in Rows(table) :
        b.room_name = key[1] /\ b.date = key[2] /\ b.start_time = key[3]

\* C9: delete_booking a second time with the same key, or with a key that
\* matches no stored booking, leaves the store as it was.
C9_RemoveIdempotent ==
    \A key \in DeleteKeys :
        LET once == delete_booking(store, key[1], key[2], key[3])
        IN  /\ delete_booking(once, key[1], key[2], key[3]) = once
            /\ ~Matches(once, key)
            /\ ~Matches(store, key) => once = store

\* a booking was deleted and two bookings with one key are stored
C9_Witness ==
    /\ msg = MsgDeleted
    /\ \E b \in Rows(store) : CopiesIn(b, store) > 1

FirstUnavailableDay ==
    CHOOSE d \in ProposalDays :
        /\ ~is_room_available(store, room_selection, DateStr(d), timeslot_selection,
                              end_time_selection)
        /\ \A earlier \in ProposalDays :
              earlier < d => is_room_available(store, room_selection, DateStr(earlier),
                                               timeslot_selection, end_time_selection)

\* C11: when a recurring proposal is rejected for a conflict, the warning
\* identifies the first date of the series on which the room is unavailable:
\* it is the warning of that date and of no other date of the series.
C11_WarningIdentifiesDate ==
    [][(ConfirmStep /\ recurring_booking /\ booking_info # "" /\ msg' = MsgConflict) =>
          \A d \in ProposalDays :
              msg' = ConflictWarning(d) <=> d = FirstUnavailableDay]_vars

\* the time of day a label reads as, in minutes: "HH:MM" is 60*HH + MM
MinutesOf(label) ==
    60 * (10 * (label[1] - 48) + (label[2] - 48)) + 10 * (label[4] - 48) + (label[5] - 48)

\* the slots that are lexically after the label, in the order of the template
SlotsAfter(label) == SelectSeq(timeslots, LAMBDA t : TextLess(label, t))

\* C12: the slot sequence is the 25 labels 07:00, 07:30, ..., 19:00, strictly
\* increasing in lexical order as in time, and the end-time choices offered
\* for the selected start slot are exactly the slots strictly after it, in
\* order; the end time selected is one of them.
C12_SlotsAndEndChoices ==
    /\ Len(timeslots) = 25
    /\ timeslots[1] = <<48, 55, 58, 48, 48>>
    /\ timeslots[25] = <<49, 57, 58, 48, 48>>
    /\ \A i \in 1..24 :
          /\ MinutesOf(timeslots[i + 1]) = MinutesOf(timeslots[i]) + 30
          /\ TextLess(timeslots[i], timeslots[i + 1])
    /\ \A i \in 1..25, j \in 1..25 :
          TextLess(timeslots[i], timeslots[j]) <=> i < j
    /\ end_timeslots(timeslot_selection) = SlotsAfter(timeslot_selection)
    /\ IF SlotsAfter(timeslot_selection) = <<>>
       THEN end_time_selection = None
       ELSE /\ end_time_selection # None
            /\ TextLess(timeslot_selection, end_time_selection)
            /\ MinutesOf(timeslot_selection) < MinutesOf(end_time_selection)

\* 13:00 is selected as the start and the last slot as the end
C12_Witness ==
    /\ timeslot_selection = timeslots[13]
    /\ MinutesOf(timeslot_selection) = 13 * 60
    /\ Len(end_timeslots(timeslot_selection)) = 12
    /\ end_time_selection = timeslots[NumSlots]

\* the booking has the key: room, date and startTime all equal
HasKey(b, key) == b.room_name = key[1] /\ b.date = key[2] /\ b.start_time = key[3]

\* C16: delete_booking(room, date, start) removes only stored bookings whose
\* room, date and startTime all equal the arguments; every booking that
\* differs in room, date or startTime stays in the store unchanged, with all
\* its copies, and no booking is added.
C16_RemoveFrame ==
    \A key \in DeleteKeys :
        LET after == delete_booking(store, key[1], key[2], key[3])
        IN  /\ Rows(after) \subseteq Rows(store)
            /\ \A b \in Rows(store) :
                  CopiesIn(b, after) = IF HasKey(b, key) THEN 0 ELSE CopiesIn(b, store)

\* after a deletion, the store still holds two bookings of one room and date
\* with different start times
C16_Witness ==
    /\ msg = MsgDeleted
    /\ \E A \in Rows(store), B \in Rows(store) :
          /\ SameRoomAndDate(A, B)
          /\ A.start_time # B.start_time

\* every row of the table has its start before its end
WellFormed(table) == \A b \in Rows(table) : Before(b.start_time, b.end_time)

\* C18: for a store of bookings with start before end and a proposed interval
\* [S, E) with S before E, is_room_available(room, date, S, E) is true if and
\* only if is_room_booked(room, date, t) returns none for every slot t with
\* S <= t < E.
C18_GridAgreesWithCheck ==
    (/\ answer.call = "is_room_available"
     /\ WellFormed(store)
     /\ Before(answer.start_time, answer.end_time))
    => (answer.result = TRUE <=>
           \A t \in SlotsOf(answer) :
               is_room_booked(store, answer.room, answer.date, t) = {})

\* the call was refused on a store of well-formed bookings, one of which
\* starts before the proposal and ends inside it
C18_Witness ==
    /\ answer.call = "is_room_available"
    /\ answer.result = FALSE
    /\ WellFormed(store)
    /\ \E b \in Rows(store) :
          /\ b.room_name = answer.room
          /\ b.date = answer.date
          /\ Before(b.start_time, answer.start_time)
          /\ Before(answer.start_time, b.end_time)
          /\ Before(b.end_time, answer.end_time)

\* the booking the other session proposes for a day
PeerProposed(day) ==
    [room_name |-> peer.room_name, date |-> DateStr(day),
     start_time |-> peer.start_time, end_time |-> peer.end_time,
     booking_info |-> peer.booking_info]

PeerDays == {peer.date + DaysPerWeek * i : i \in 0..(peer.n - 1)}

\* C13: the check and the inserts of a handler are not atomic.  A session
\* passes its check only when its proposal is free on all its dates, and it
\* inserts whatever the store has become meanwhile: the store gets its first
\* overlapping pair only in the insert step of a session whose proposal, free
\* when it was checked, overlaps a booking that the other session inserted
\* since.
C13_CheckThenActRace ==
    [][/\ (pc = "idle" /\ pc' = "insert") =>
              \A d \in ProposalDays : ~Conflicts(store, Proposed(d))
       /\ (peer.pc = "idle" /\ peer'.pc = "insert") =>
              \A d \in {peer'.date + DaysPerWeek * i : i \in 0..(peer'.n - 1)} :
                  ~Conflicts(store, [room_name |-> peer'.room_name, date |-> DateStr(d),
                                     start_time |-> peer'.start_time,
                                     end_time |-> peer'.end_time,
                                     booking_info |-> peer'.booking_info])
       /\ (C1_NoOverlap /\ ~C1_NoOverlap') =>
              \/ /\ pc = "insert"
                 /\ pc' = "idle"
                 /\ \E d \in ProposalDays : Conflicts(store, Proposed(d))
                 /\ store' = store (+) SetToBag({Proposed(d) : d \in ProposalDays})
              \/ /\ peer.pc = "insert"
                 /\ peer'.pc = "idle"
                 /\ \E d \in PeerDays : Conflicts(store, PeerProposed(d))
                 /\ store' = store (+) SetToBag({PeerProposed(d) : d \in PeerDays})]_vars

\* both sessions have run their handler to its end and the store holds two
\* overlapping bookings of one room and date
C13_Witness ==
    /\ pc = "idle"
    /\ peer.pc = "idle"
    /\ \E A \in Rows(store), B \in Rows(store) :
          Distinct(store, A, B) /\ Overlap(A, B)

\* C15: recurring insertion is all-or-nothing also under storage failure: if
\* an insert fails partway through the insert loop of a recurring proposal,
\* none of the bookings of that series is in the store afterwards.
C15_AllOrNothingUnderFailure ==
    [][(recurring_booking /\ msg' = MsgInsertError) =>
          /\ store' = store
          /\ \A d \in ProposalDays : Proposed(d) \notin Rows(store')]_vars

\* the step is a Confirm Booking run that accepted the proposal: all its
\* bookings are inserted and the success text is shown
AcceptedStep == msg' \in {MsgConfirmed, MsgRecurring, MsgUploadError}

\* the step is a run of the delete handler to its end
RemovalStep == msg' = MsgDeleted

\* C17: after each accepted proposal (single or recurring) and after each
\* removal that completes, the remote snapshot holds exactly the bookings of
\* the local store, and a restore from the snapshot does not change the store.
C17_BackupFollowsMutation ==
    [][/\ (AcceptedStep \/ RemovalStep) => remote' = store'
       /\ msg' = MsgRestored => store' = store]_vars

\* the step is a run of the delete handler for a row the day's table shows
\* that has the booking's room, date and start time
RemovedByKey(b) ==
    /\ msg' \in {MsgDeleted, MsgUncaught}
    /\ b.date = DateStr(selected_date)
    /\ store' = delete_booking(store, b.room_name, b.date, b.start_time)

\* C14: a stored booking stays in the store, unchanged, until a remove with
\* its own (room, date, startTime) key runs: no proposal, no query and no
\* restore from the snapshot (the restore of the first run of a day, the
\* Restore Database button) makes it disappear; and a booking appears in the
\* store only as one of the bookings of an accepted proposal.
C14_OnlyRemoveAndAccept ==
    [][\A b \in Rows(store) \cup Rows(store') :
          /\ CopiesIn(b, store') < CopiesIn(b, store) => RemovedByKey(b)
          /\ CopiesIn(b, store') > CopiesIn(b, store) =>
                /\ AcceptedStep
                /\ b \in {Proposed(d) : d \in ProposalDays}]_vars

=============================================================================
